---------------------------- MODULE Spec2Model ----------------------------
(***************************************************************************)
(* A model of the ESC/POS printer driver of src/src/lib.rs: the Printer    *)
(* facade, its transport, and the byte encoding of every operation.        *)
(*                                                                         *)
(* A byte is a number in 0..255, a byte string is a sequence of bytes.  A  *)
(* &str is held as its UTF-8 bytes, which is what str::as_bytes returns.   *)
(* The transport is any implementation of the Write trait: each write      *)
(* either takes all the bytes and returns Ok, or returns an error value.   *)
(***************************************************************************)
EXTENDS Integers, Sequences, FiniteSets, TLC

VARIABLES
    transport,        \* the chunks the transport accepted, one per successful write
    calls,            \* the operation calls made so far, oldest first
    overflow_checks,  \* the build: TRUE when integer overflow panics, FALSE when it wraps
    panicked          \* TRUE once a call has panicked: the program has stopped

vars == <<transport, calls, overflow_checks, panicked>>

---------------------------------------------------------------------------
(* Bounds of the model.                                                    *)

MaxCalls == 2

---------------------------------------------------------------------------
(* Machine integers.                                                       *)

U8Mod == 256
U16Mod == 65536

Min(a, b) == IF a < b THEN a ELSE b

RECURSIVE BitOr(_, _)
BitOr(a, b) ==
    IF a = 0 THEN b
    ELSE IF b = 0 THEN a
    ELSE (IF (a % 2 = 1) \/ (b % 2 = 1) THEN 1 ELSE 0) + 2 * BitOr(a \div 2, b \div 2)

RECURSIVE BitAnd(_, _)
BitAnd(a, b) ==
    IF a = 0 \/ b = 0 THEN 0
    ELSE (IF (a % 2 = 1) /\ (b % 2 = 1) THEN 1 ELSE 0) + 2 * BitAnd(a \div 2, b \div 2)

RECURSIVE Pow2(_)
Pow2(n) == IF n = 0 THEN 1 ELSE 2 * Pow2(n - 1)

\* x << n on a u8: the bits shifted out of the byte are dropped
ShlU8(x, n) == (x * Pow2(n)) % U8Mod

\* x >> n
Shr(x, n) == x \div Pow2(n)

\* x as u8
AsU8(x) == x % U8Mod

\* A u32 is held as its two 16-bit halves, [hi, lo], the value being
\* hi * 65536 + lo.
U32 == [hi : 0 .. U16Mod - 1, lo : 0 .. U16Mod - 1]

\* the four bytes, most significant first
to_be_bytes(x) ==
    << (x.hi \div U8Mod) % U8Mod, x.hi % U8Mod, (x.lo \div U8Mod) % U8Mod, x.lo % U8Mod >>

\* u32::to_le_bytes: the four bytes, least significant first
to_le_bytes(x) ==
    << x.lo % U8Mod, (x.lo \div U8Mod) % U8Mod, x.hi % U8Mod, (x.hi \div U8Mod) % U8Mod >>

\* str::as_bytes: the UTF-8 bytes of the text, which is how the text is held
as_bytes(text) == text

---------------------------------------------------------------------------
(* The command option enums and their protocol bytes.                      *)

CutMode == {"Full", "Partial"}
UnderlineMode == {"None", "Single", "Double"}
Align == {"Left", "Center", "Right"}
Font == {"FontA", "FontB"}
Justification == {"Left", "Center", "Right"}
Density == {"Level0", "Level1", "Level2", "Level3", "Level4", "Level5",
            "Level6", "Level7", "Level8"}
PrintSpeed == {"Speed1", "Speed2", "Speed3", "Speed4"}

CutMode_as_byte(self) ==
    CASE self = "Full" -> 0
      [] self = "Partial" -> 1

UnderlineMode_as_byte(self) ==
    CASE self = "None" -> 0
      [] self = "Single" -> 1
      [] self = "Double" -> 2

Align_as_byte(self) ==
    CASE self = "Left" -> 0
      [] self = "Center" -> 1
      [] self = "Right" -> 2

Font_as_byte(self) ==
    CASE self = "FontA" -> 0
      [] self = "FontB" -> 1

Justification_as_byte(self) ==
    CASE self = "Left" -> 0
      [] self = "Center" -> 1
      [] self = "Right" -> 2

Density_as_byte(self) ==
    CASE self = "Level0" -> 0
      [] self = "Level1" -> 1
      [] self = "Level2" -> 2
      [] self = "Level3" -> 3
      [] self = "Level4" -> 4
      [] self = "Level5" -> 5
      [] self = "Level6" -> 6
      [] self = "Level7" -> 7
      [] self = "Level8" -> 8

\* the speeds numbered from one
PrintSpeed_number(self) ==
    CASE self = "Speed1" -> 1
      [] self = "Speed2" -> 2
      [] self = "Speed3" -> 3
      [] self = "Speed4" -> 4

PrintSpeed_as_byte(self) ==
    CASE self = "Speed1" -> 0
      [] self = "Speed2" -> 1
      [] self = "Speed3" -> 2
      [] self = "Speed4" -> 3

---------------------------------------------------------------------------
(* The transport.  A running call is a record                              *)
(*   chunks : what the transport has accepted,                             *)
(*   log    : the transport writes this call has attempted, with results,  *)
(*   answers: what the transport will answer to the writes still to come,  *)
(*   res    : the Result the last step returned.                           *)

Errors == {"E1", "E2"}
Outcomes == {"Ok"} \cup Errors

Begin(chunks, answers) ==
    [chunks |-> chunks, log |-> << >>, answers |-> answers, res |-> "Ok"]

\* Write::write of the transport: all the bytes are taken, or the write fails
Transport_write(self, data) ==
    LET r == Head(self.answers) IN
    [chunks  |-> IF r = "Ok" THEN Append(self.chunks, data) ELSE self.chunks,
     log     |-> Append(self.log, [data |-> data, res |-> r]),
     answers |-> Tail(self.answers),
     res     |-> r]

\* a panic: the call never returns
Panic(self) == [self EXCEPT !.res = "Panic"]

---------------------------------------------------------------------------
(* The operations of Printer.                                              *)

raw(self, data) == Transport_write(self, data)

write(self, text) == Transport_write(self, as_bytes(text))

\* the text and the line feed in one write
write_line_in_one_write(self, text) == Transport_write(self, as_bytes(text) \o << 10 >>)

\* the line ended by carriage return and line feed
write_line_crlf(self, text) ==
    LET first == write(self, text) IN
    IF first.res # "Ok" THEN first
    ELSE Transport_write(first, << 13, 10 >>)

\* the text written again when its write failed
write_line_retrying(self, text) ==
    LET first == write(self, text) IN
    IF first.res # "Ok" THEN write(first, text)
    ELSE Transport_write(first, << 10 >>)

write_line(self, text) ==
    LET first == write(self, text) IN
    IF first.res # "Ok" THEN first
    ELSE Transport_write(first, << 10 >>)

feed(self, lines) == raw(self, << 27, 100, lines >>)

cut(self, mode) == raw(self, << 29, 86, CutMode_as_byte(mode) >>)

set_bold(self, on) == raw(self, << 27, 69, IF on THEN 1 ELSE 0 >>)

set_underline(self, mode) == raw(self, << 27, 45, UnderlineMode_as_byte(mode) >>)

set_align(self, align) == raw(self, << 27, 97, Align_as_byte(align) >>)

set_font(self, font) == raw(self, << 27, 77, Font_as_byte(font) >>)

\* the multipliers taken as they come
set_size_unclamped(self, width, height) ==
    raw(self, << 29, 33, BitOr(ShlU8(width, 4), height) >>)

set_size(self, width, height) ==
    LET w == Min(width, 7)
        h == Min(height, 7)
        param == BitOr(ShlU8(w, 4), h)
    IN raw(self, << 29, 33, param >>)

set_invert(self, on) == raw(self, << 29, 66, IF on THEN 1 ELSE 0 >>)

set_justification(self, mode) == raw(self, << 27, 97, Justification_as_byte(mode) >>)

set_density(self, level) == raw(self, << 29, 124, Density_as_byte(level) >>)

set_print_speed(self, speed) == raw(self, << 31, 80, PrintSpeed_as_byte(speed) >>)

set_baud_rate(self, baud) ==
    LET b == to_le_bytes(baud) IN
    raw(self, << 27, 35, 35, 83, 66, 68, 82, b[1], b[2], b[3], b[4] >>)

set_max_speed(self, speed) == raw(self, << 27, 35, 35, 83, 84, 83, 80, speed >>)

set_black_mark(self, on) ==
    raw(self, << 31, 27, 31, 128, 4, 5, 6, IF on THEN 68 ELSE 102 >>)

\* the result of the header's write dropped
print_image_unchecked_header(self, image, checks) ==
    IF image.width + 7 >= U16Mod /\ checks THEN Panic(self)
    ELSE
        LET width_bytes == (((image.width + 7) % U16Mod) \div 8) % U16Mod
            header == raw(self, << 29, 118, 48, 0, AsU8(BitAnd(width_bytes, 255)),
                                   AsU8(Shr(width_bytes, 8)), AsU8(BitAnd(image.height, 255)),
                                   AsU8(Shr(image.height, 8)) >>)
        IN Transport_write(header, image.data)

\* the data cut to the length the header announces
print_image_truncating(self, image, checks) ==
    IF image.width + 7 >= U16Mod /\ checks THEN Panic(self)
    ELSE
        LET width_bytes == (((image.width + 7) % U16Mod) \div 8) % U16Mod
            header == raw(self, << 29, 118, 48, 0, AsU8(BitAnd(width_bytes, 255)),
                                   AsU8(Shr(width_bytes, 8)), AsU8(BitAnd(image.height, 255)),
                                   AsU8(Shr(image.height, 8)) >>)
        IN IF header.res # "Ok" THEN header
           ELSE Transport_write(header,
                    SubSeq(image.data, 1, Min(Len(image.data), width_bytes * image.height)))

\* image.width + 7 is a u16 addition: with overflow checks it panics past
\* 65535, without them it wraps
print_image(self, image, checks) ==
    IF image.width + 7 >= U16Mod /\ checks THEN Panic(self)
    ELSE
        LET width_bytes == (((image.width + 7) % U16Mod) \div 8) % U16Mod
            x_l == AsU8(BitAnd(width_bytes, 255))
            x_h == AsU8(Shr(width_bytes, 8))
            y_l == AsU8(BitAnd(image.height, 255))
            y_h == AsU8(Shr(image.height, 8))
            header == raw(self, << 29, 118, 48, 0, x_l, x_h, y_l, y_h >>)
        IN IF header.res # "Ok" THEN header
           ELSE Transport_write(header, image.data)

---------------------------------------------------------------------------
(* The state machine: a caller that calls the operations one after the     *)
(* other, on a transport that answers each write as it likes.              *)

\* Printer::new, on a transport that has received nothing
Init ==
    /\ transport = << >>
    /\ calls = << >>
    /\ overflow_checks \in BOOLEAN
    /\ panicked = FALSE

\* one call of an operation: `run` is the call as it ended
Call(op, args, run) ==
    /\ transport' = run.chunks
    /\ calls' = Append(calls, [op |-> op, args |-> args, res |-> run.res, log |-> run.log])
    /\ panicked' = (run.res = "Panic")
    /\ UNCHANGED overflow_checks

Start(answers) == Begin(transport, answers)

Do_write(text, r) == Call("write", << text >>, write(Start(<< r >>), text))

Do_write_line(text, r1, r2) ==
    Call("write_line", << text >>, write_line(Start(<< r1, r2 >>), text))

Do_feed(lines, r) == Call("feed", << lines >>, feed(Start(<< r >>), lines))

Do_cut(mode, r) == Call("cut", << mode >>, cut(Start(<< r >>), mode))

Do_set_bold(on, r) == Call("set_bold", << on >>, set_bold(Start(<< r >>), on))

Do_set_underline(mode, r) ==
    Call("set_underline", << mode >>, set_underline(Start(<< r >>), mode))

Do_set_align(align, r) == Call("set_align", << align >>, set_align(Start(<< r >>), align))

Do_set_font(font, r) == Call("set_font", << font >>, set_font(Start(<< r >>), font))

Do_set_size(width, height, r) ==
    Call("set_size", << width, height >>, set_size(Start(<< r >>), width, height))

Do_set_invert(on, r) == Call("set_invert", << on >>, set_invert(Start(<< r >>), on))

Do_set_justification(mode, r) ==
    Call("set_justification", << mode >>, set_justification(Start(<< r >>), mode))

Do_set_density(level, r) ==
    Call("set_density", << level >>, set_density(Start(<< r >>), level))

Do_set_print_speed(speed, r) ==
    Call("set_print_speed", << speed >>, set_print_speed(Start(<< r >>), speed))

Do_set_baud_rate(baud, r) ==
    Call("set_baud_rate", << baud >>, set_baud_rate(Start(<< r >>), baud))

Do_set_max_speed(speed, r) ==
    Call("set_max_speed", << speed >>, set_max_speed(Start(<< r >>), speed))

Do_set_black_mark(on, r) ==
    Call("set_black_mark", << on >>, set_black_mark(Start(<< r >>), on))

Do_print_image(image, r1, r2) ==
    Call("print_image", << image >>,
         print_image(Start(<< r1, r2 >>), image, overflow_checks))

Do_raw(data, r) == Call("raw", << data >>, raw(Start(<< r >>), data))

---------------------------------------------------------------------------
(* The inputs the caller draws from.                                       *)

\* characters, each as its UTF-8 bytes: H, line feed, ESC, e-acute
Chars == { << 72 >>, << 10 >>, << 27 >>, << 195, 169 >> }

MaxTextLen == 2

RECURSIVE TextsUpTo(_)
TextsUpTo(n) ==
    IF n = 0 THEN { << >> }
    ELSE LET S == TextsUpTo(n - 1) IN S \cup { s \o c : s \in S, c \in Chars }

SomeTexts == { << >>, << 195, 169, 10 >> }
SomeBytes == { 0, 30 }
SomeSizes == { << 2, 3 >>, << 9, 2 >> }
SomeBauds == { [hi |-> 0, lo |-> 9600], [hi |-> 65535, lo |-> 65535] }
SomeData == { << >>, << 170, 85 >> }
SomeImages ==
    { [width |-> 8, height |-> 1, data |-> << 170 >>],
      [width |-> 8, height |-> 1, data |-> << >>],
      [width |-> 8, height |-> 1, data |-> << 170, 85 >>],
      [width |-> 2041, height |-> 258, data |-> << 170, 85 >>],
      [width |-> 65529, height |-> 1, data |-> << 170 >>] }

\* the bytes from which the halves of the baud rates are built
EdgeBytes == { 0, 1, 37, 127, 128, 194, 255 }
EdgeHalves == { a + U8Mod * b : a \in EdgeBytes, b \in EdgeBytes }

Running == (~ panicked) /\ Len(calls) < MaxCalls

\* a caller that makes up to MaxCalls calls, of any operation, with a few
\* arguments for each
Next ==
    /\ Running
    /\ \/ \E text \in SomeTexts, r \in Outcomes : Do_write(text, r)
       \/ \E text \in SomeTexts, r1, r2 \in Outcomes : Do_write_line(text, r1, r2)
       \/ \E lines \in SomeBytes, r \in Outcomes : Do_feed(lines, r)
       \/ \E mode \in CutMode, r \in Outcomes : Do_cut(mode, r)
       \/ \E on \in BOOLEAN, r \in Outcomes : Do_set_bold(on, r)
       \/ \E mode \in { "None", "Double" }, r \in Outcomes : Do_set_underline(mode, r)
       \/ \E align \in { "Left", "Center" }, r \in Outcomes : Do_set_align(align, r)
       \/ \E font \in Font, r \in Outcomes : Do_set_font(font, r)
       \/ \E size \in SomeSizes, r \in Outcomes : Do_set_size(size[1], size[2], r)
       \/ \E on \in BOOLEAN, r \in Outcomes : Do_set_invert(on, r)
       \/ \E mode \in { "Center", "Right" }, r \in Outcomes :
              Do_set_justification(mode, r)
       \/ \E level \in { "Level0", "Level8" }, r \in Outcomes : Do_set_density(level, r)
       \/ \E speed \in { "Speed1", "Speed4" }, r \in Outcomes :
              Do_set_print_speed(speed, r)
       \/ \E baud \in SomeBauds, r \in Outcomes : Do_set_baud_rate(baud, r)
       \/ \E speed \in SomeBytes, r \in Outcomes : Do_set_max_speed(speed, r)
       \/ \E on \in BOOLEAN, r \in Outcomes : Do_set_black_mark(on, r)
       \/ \E image \in SomeImages, r1, r2 \in Outcomes : Do_print_image(image, r1, r2)
       \/ \E data \in SomeData, r \in Outcomes : Do_raw(data, r)

Spec == Init /\ [][Next]_vars

\* a caller that makes up to MaxCalls calls of the operations that take an
\* option, with any variant of it
NextOption ==
    /\ Running
    /\ \/ \E mode \in CutMode, r \in Outcomes : Do_cut(mode, r)
       \/ \E mode \in UnderlineMode, r \in Outcomes : Do_set_underline(mode, r)
       \/ \E align \in Align, r \in Outcomes : Do_set_align(align, r)
       \/ \E font \in Font, r \in Outcomes : Do_set_font(font, r)
       \/ \E mode \in Justification, r \in Outcomes : Do_set_justification(mode, r)
       \/ \E level \in Density, r \in Outcomes : Do_set_density(level, r)
       \/ \E speed \in PrintSpeed, r \in Outcomes : Do_set_print_speed(speed, r)

SpecOption == Init /\ [][NextOption]_vars

\* a caller that makes one call of set_size, with any two u8 multipliers
NextSize ==
    /\ (~ panicked) /\ calls = << >>
    /\ \E width \in 0 .. U8Mod - 1, height \in 0 .. U8Mod - 1, r \in Outcomes :
           Do_set_size(width, height, r)

SpecSize == Init /\ [][NextSize]_vars

\* a caller that makes one call of set_baud_rate
NextBaud ==
    /\ (~ panicked) /\ calls = << >>
    /\ \E hi \in EdgeHalves, lo \in EdgeHalves, r \in Outcomes :
           Do_set_baud_rate([hi |-> hi, lo |-> lo], r)

SpecBaud == Init /\ [][NextBaud]_vars

\* a caller that makes one call of write or of write_line, with any text of
\* up to MaxTextLen characters
NextText ==
    /\ (~ panicked) /\ calls = << >>
    /\ \/ \E text \in TextsUpTo(MaxTextLen), r \in Outcomes : Do_write(text, r)
       \/ \E text \in TextsUpTo(MaxTextLen), r1, r2 \in Outcomes :
              Do_write_line(text, r1, r2)

SpecText == Init /\ [][NextText]_vars

---------------------------------------------------------------------------
(* What the properties below speak of.                                     *)

CallIds == 1 .. Len(calls)

\* the call returned to its caller
Returned(c) == c.res # "Panic"

\* the transport failed none of the writes of the call
AllOk(c) == \A k \in 1 .. Len(c.log) : c.log[k].res = "Ok"

\* the writes of the call, in order, without their results
Written(c) == [k \in 1 .. Len(c.log) |-> c.log[k].data]

RECURSIVE Flatten(_)
Flatten(chunks) == IF chunks = << >> THEN << >> ELSE Head(chunks) \o Flatten(Tail(chunks))

Ceil8(n) == (n + 7) \div 8

LoByte(n) == n % 256
HiByte(n) == (n \div 256) % 256

\* the header of a raster image, as the protocol defines it
RasterHeader(width, height) ==
    << 29, 118, 48, 0, LoByte(Ceil8(width)), HiByte(Ceil8(width)),
       LoByte(height), HiByte(height) >>

---------------------------------------------------------------------------
\* C1, as stated: on a non-failing transport every operation performs exactly
\* one transport write per call, and print_image, the single exception,
\* performs exactly two.
C1_OneWriteExceptImage ==
    \A i \in CallIds :
        (Returned(calls[i]) /\ AllOk(calls[i])) =>
            Len(calls[i].log) = IF calls[i].op = "print_image" THEN 2 ELSE 1

\* C1, amended: on a non-failing transport every operation performs exactly
\* one transport write per call that returns, except write_line and
\* print_image, which each perform exactly two.
C1_OneWriteExceptLineAndImage ==
    \A i \in CallIds :
        (Returned(calls[i]) /\ AllOk(calls[i])) =>
            Len(calls[i].log) =
                IF calls[i].op \in { "print_image", "write_line" } THEN 2 ELSE 1

\* a write_line and a print_image that both returned Ok after two writes each
C1_Witness ==
    /\ Len(calls) = 2
    /\ calls[1].op = "write_line" /\ calls[1].res = "Ok" /\ Len(calls[1].log) = 2
    /\ calls[2].op = "print_image" /\ calls[2].res = "Ok" /\ Len(calls[2].log) = 2

---------------------------------------------------------------------------
\* C2: for every width and height of 16 bits the first write of print_image
\* is the 8 bytes 1D 76 30 00 xL xH yL yH, xL xH being ceil(width / 8) and
\* yL yH the height, both little-endian; the width arithmetic never
\* overflows or wraps.
C2_HeaderIsCeilOfWidth ==
    \A i \in CallIds :
        calls[i].op = "print_image" =>
            /\ Len(calls[i].log) >= 1
            /\ calls[i].log[1].data =
                   RasterHeader(calls[i].args[1].width, calls[i].args[1].height)

---------------------------------------------------------------------------
\* C3: when the transport fails the first write of write_line or of
\* print_image, the operation returns that failure, attempts no second
\* write, and the transport receives nothing more.
C3_FirstFailureStops ==
    [][ (calls' # calls) =>
            LET c == calls'[Len(calls')] IN
            (/\ c.op \in { "write_line", "print_image" }
             /\ Len(c.log) >= 1
             /\ c.log[1].res # "Ok")
            => (/\ c.res = c.log[1].res
                /\ Len(c.log) = 1
                /\ transport' = transport) ]_vars

\* a write_line and a print_image whose first write the transport failed
C3_Witness ==
    /\ Len(calls) = 2
    /\ calls[1].op = "write_line" /\ calls[1].log[1].res = "E1"
    /\ calls[2].op = "print_image" /\ Len(calls[2].log) >= 1
    /\ calls[2].log[1].res = "E2"

---------------------------------------------------------------------------
\* the bytes the protocol defines for a call
Defined(c) ==
    CASE c.op = "write" -> c.args[1]
      [] c.op = "write_line" -> c.args[1] \o << 10 >>
      [] c.op = "feed" -> << 27, 100, c.args[1] >>
      [] c.op = "cut" -> << 29, 86, IF c.args[1] = "Full" THEN 0 ELSE 1 >>
      [] c.op = "set_bold" -> << 27, 69, IF c.args[1] THEN 1 ELSE 0 >>
      [] c.op = "set_underline" ->
             << 27, 45, CASE c.args[1] = "None" -> 0
                          [] c.args[1] = "Single" -> 1
                          [] c.args[1] = "Double" -> 2 >>
      [] c.op \in { "set_align", "set_justification" } ->
             << 27, 97, CASE c.args[1] = "Left" -> 0
                          [] c.args[1] = "Center" -> 1
                          [] c.args[1] = "Right" -> 2 >>
      [] c.op = "set_font" -> << 27, 77, IF c.args[1] = "FontA" THEN 0 ELSE 1 >>
      [] c.op = "set_size" -> << 29, 33, 16 * Min(c.args[1], 7) + Min(c.args[2], 7) >>
      [] c.op = "set_invert" -> << 29, 66, IF c.args[1] THEN 1 ELSE 0 >>
      [] c.op = "set_density" ->
             << 29, 124, CHOOSE n \in 0 .. 8 : c.args[1] = "Level" \o ToString(n) >>
      [] c.op = "set_print_speed" ->
             << 31, 80, (CHOOSE k \in 1 .. 4 : c.args[1] = "Speed" \o ToString(k)) - 1 >>
      [] c.op = "set_baud_rate" ->
             << 27, 35, 35, 83, 66, 68, 82, LoByte(c.args[1].lo), HiByte(c.args[1].lo),
                LoByte(c.args[1].hi), HiByte(c.args[1].hi) >>
      [] c.op = "set_max_speed" -> << 27, 35, 35, 83, 84, 83, 80, c.args[1] >>
      [] c.op = "set_black_mark" ->
             << 31, 27, 31, 128, 4, 5, 6, IF c.args[1] THEN 68 ELSE 102 >>
      [] c.op = "print_image" ->
             RasterHeader(c.args[1].width, c.args[1].height) \o c.args[1].data
      [] c.op = "raw" -> c.args[1]

RECURSIVE DefinedUpTo(_)
DefinedUpTo(n) == IF n = 0 THEN << >> ELSE DefinedUpTo(n - 1) \o Defined(calls[n])

\* C4: after any sequence of calls on a non-failing transport, the bytes the
\* transport received are the concatenation, in call order, of the bytes
\* defined for each call, each once, whatever was called before.
C4_HistoryIndependent ==
    (\A i \in CallIds : Returned(calls[i]) /\ AllOk(calls[i])) =>
        Flatten(transport) = DefinedUpTo(Len(calls))

---------------------------------------------------------------------------
\* C5: for every two u8 multipliers w and h, set_size(w, h) writes exactly the
\* three bytes 1D 21 p, p being (min(w, 7) << 4) | min(h, 7); a multiplier out
\* of range is clamped, never an error, and p is at most 0x77.
C5_SizeIsClamped ==
    \A i \in CallIds :
        calls[i].op = "set_size" =>
            LET w == Min(calls[i].args[1], 7)
                h == Min(calls[i].args[2], 7)
                p == BitOr(ShlU8(w, 4), h)
            IN /\ Written(calls[i]) = << << 29, 33, p >> >>
               /\ p = 16 * w + h
               /\ p <= 119
               /\ calls[i].res = calls[i].log[1].res

\* set_size(9, 2) returned Ok after writing 1D 21 72
C5_Witness ==
    /\ Len(calls) = 1
    /\ calls[1].op = "set_size" /\ calls[1].args = << 9, 2 >>
    /\ calls[1].res = "Ok"
    /\ transport = << << 29, 33, 114 >> >>

---------------------------------------------------------------------------
\* C6: for every text s, write_line(s) on a non-failing transport is write(s)
\* followed by a separate write of the one byte 0A: the transport receives
\* the bytes of s, unmodified, then 0A, and nothing else.
C6_LineIsTextThenNewline ==
    [][ (calls' # calls) =>
            LET c == calls'[Len(calls')] IN
            (c.op = "write_line" /\ AllOk(c)) =>
                /\ c.res = "Ok"
                /\ Written(c) = << c.args[1], << 10 >> >>
                /\ transport' = transport \o << c.args[1], << 10 >> >>
                /\ transport' =
                       raw(write(Start(<< "Ok", "Ok" >>), c.args[1]), << 10 >>).chunks
                /\ Flatten(transport') = Flatten(transport) \o c.args[1] \o << 10 >> ]_vars

\* write_line of a two-character text that holds a line feed returned Ok
C6_Witness ==
    /\ Len(calls) = 1
    /\ calls[1].op = "write_line" /\ calls[1].res = "Ok"
    /\ calls[1].args[1] = << 195, 169, 10 >>
    /\ transport = << << 195, 169, 10 >>, << 10 >> >>

---------------------------------------------------------------------------
\* (baud >> 8 i) mod 256, for a baud rate held as its two halves
BaudByte(baud, i) ==
    CASE i = 0 -> baud.lo % 256
      [] i = 1 -> (baud.hi * 256 + baud.lo \div 256) % 256
      [] i = 2 -> baud.hi % 256
      [] i = 3 -> (baud.hi \div 256) % 256

\* C7: for every u32 baud, set_baud_rate(baud) writes exactly the 11 bytes
\* 1B 23 23 53 42 44 52 b0 b1 b2 b3, b_i being (baud >> 8 i) mod 256; no
\* value is rejected or altered.
C7_BaudIsLittleEndian ==
    \A i \in CallIds :
        calls[i].op = "set_baud_rate" =>
            LET baud == calls[i].args[1]
                sent == calls[i].log[1].data
            IN /\ Written(calls[i]) =
                      << << 27, 35, 35, 83, 66, 68, 82, BaudByte(baud, 0),
                            BaudByte(baud, 1), BaudByte(baud, 2), BaudByte(baud, 3) >> >>
               /\ sent[8] + 256 * sent[9] = baud.lo
               /\ sent[10] + 256 * sent[11] = baud.hi
               /\ calls[i].res = calls[i].log[1].res

\* set_baud_rate(9600) returned Ok after writing ... 80 25 00 00
C7_Witness ==
    /\ Len(calls) = 1
    /\ calls[1].op = "set_baud_rate" /\ calls[1].args[1] = [hi |-> 0, lo |-> 9600]
    /\ calls[1].res = "Ok"
    /\ transport = << << 27, 35, 35, 83, 66, 68, 82, 128, 37, 0, 0 >> >>

---------------------------------------------------------------------------
\* the two-byte prefix and the table of each operation that takes an option
OptionPrefix ==
    [cut |-> << 29, 86 >>, set_underline |-> << 27, 45 >>, set_align |-> << 27, 97 >>,
     set_justification |-> << 27, 97 >>, set_font |-> << 27, 77 >>,
     set_density |-> << 29, 124 >>, set_print_speed |-> << 31, 80 >>]

OptionByte ==
    [cut |-> [Full |-> 0, Partial |-> 1],
     set_underline |-> [None |-> 0, Single |-> 1, Double |-> 2],
     set_align |-> [Left |-> 0, Center |-> 1, Right |-> 2],
     set_justification |-> [Left |-> 0, Center |-> 1, Right |-> 2],
     set_font |-> [FontA |-> 0, FontB |-> 1],
     set_density |-> [Level0 |-> 0, Level1 |-> 1, Level2 |-> 2, Level3 |-> 3,
                      Level4 |-> 4, Level5 |-> 5, Level6 |-> 6, Level7 |-> 7,
                      Level8 |-> 8],
     set_print_speed |-> [Speed1 |-> 0, Speed2 |-> 1, Speed3 |-> 2, Speed4 |-> 3]]

\* C8: for every variant of every option, the operation writes its two-byte
\* prefix and then the byte of the variant in its table; set_align(x) and
\* set_justification(x) send the same bytes.
C8_OptionTables ==
    /\ \A i \in CallIds :
           calls[i].op \in DOMAIN OptionPrefix =>
               Written(calls[i]) =
                   << OptionPrefix[calls[i].op]
                          \o << OptionByte[calls[i].op][calls[i].args[1]] >> >>
    /\ \A i, j \in CallIds :
           (/\ calls[i].op = "set_align"
            /\ calls[j].op = "set_justification"
            /\ calls[i].args = calls[j].args)
           => Written(calls[i]) = Written(calls[j])

\* set_align(Center) and set_justification(Center), both having sent 1B 61 01
C8_Witness ==
    /\ Len(calls) = 2
    /\ calls[1].op = "set_align" /\ calls[1].args = << "Center" >>
    /\ calls[2].op = "set_justification" /\ calls[2].args = << "Center" >>
    /\ transport = << << 27, 97, 1 >>, << 27, 97, 1 >> >>

---------------------------------------------------------------------------
\* the number of transport writes an operation makes when none fails
Writes(op) == IF op \in { "write_line", "print_image" } THEN 2 ELSE 1

\* C9: no operation retries: each of its transport writes is attempted at
\* most once per call, nothing is attempted after a write that failed, and
\* the call returns exactly the error of that write.
C9_NoRetry ==
    \A i \in CallIds :
        Returned(calls[i]) =>
            LET log == calls[i].log IN
            /\ Len(log) >= 1 /\ Len(log) <= Writes(calls[i].op)
            /\ \A k \in 1 .. Len(log) - 1 : log[k].res = "Ok"
            /\ calls[i].res = log[Len(log)].res

\* feed failed with E2, then write_line failed its second write with E1
C9_Witness ==
    /\ Len(calls) = 2
    /\ calls[1].op = "feed" /\ calls[1].res = "E2"
    /\ calls[2].op = "write_line" /\ Len(calls[2].log) = 2 /\ calls[2].res = "E1"
    /\ transport = << calls[2].args[1] >>

---------------------------------------------------------------------------
\* C10: print_image never looks at the length of the data: whatever the
\* length, the first write is a header that depends on the width and the
\* height alone, the second write is the data, unmodified, and the call
\* returns Ok whenever both writes succeed.
C10_DataLengthIsNotChecked ==
    /\ \A i \in CallIds :
           (calls[i].op = "print_image" /\ Returned(calls[i])) =>
               LET image == calls[i].args[1]
                   log == calls[i].log
               IN /\ Len(log) >= 1
                  /\ Len(log[1].data) = 8
                  /\ SubSeq(log[1].data, 1, 4) = << 29, 118, 48, 0 >>
                  /\ SubSeq(log[1].data, 7, 8) = << LoByte(image.height), HiByte(image.height) >>
                  /\ log[1].res = "Ok" => (Len(log) = 2 /\ log[2].data = image.data)
                  /\ AllOk(calls[i]) => calls[i].res = "Ok"
    /\ \A i, j \in CallIds :
           (/\ calls[i].op = "print_image" /\ Returned(calls[i])
            /\ calls[j].op = "print_image" /\ Returned(calls[j])
            /\ calls[i].args[1].width = calls[j].args[1].width
            /\ calls[i].args[1].height = calls[j].args[1].height)
           => calls[i].log[1].data = calls[j].log[1].data

\* two images of 8 by 1 pixels, one with no data and one with two bytes where
\* one is due, both printed with success
C10_Witness ==
    /\ Len(calls) = 2
    /\ calls[1].op = "print_image" /\ calls[1].res = "Ok"
    /\ calls[1].args[1] = [width |-> 8, height |-> 1, data |-> << >>]
    /\ calls[2].op = "print_image" /\ calls[2].res = "Ok"
    /\ calls[2].args[1] = [width |-> 8, height |-> 1, data |-> << 170, 85 >>]
    /\ transport = << << 29, 118, 48, 0, 1, 0, 1, 0 >>, << >>,
                      << 29, 118, 48, 0, 1, 0, 1, 0 >>, << 170, 85 >> >>

=============================================================================
